---- MODULE Spec2Model ----
(***************************************************************************)
(* Model of preflighter's main() (src/main.go): checklist loading, the     *)
(* optional runbook client, environment resolution, remote-step expansion, *)
(* the -l listing, runner preparation, the tool gate and the sequential    *)
(* fail-stop execution loop with its exit codes.                           *)
(*                                                                         *)
(* Strings that the code slices or prefix-tests (arguments, Env values,    *)
(* step ids, captured output) are sequences of one-character strings.      *)
(* Item indices are 0-based as in the Go code; position i+1 of a TLA+      *)
(* sequence holds index i.                                                 *)
(***************************************************************************)
EXTENDS Integers, Sequences, FiniteSets, TLC

VARIABLES
    args,            \* flag.Args()
    fSkip,           \* *fSkipPtr  (-s)
    fList,           \* *fListPtr  (-l)
    fAuto,           \* *fAutoPtr  (-a)
    osEnv,           \* the process environment read by os.Getenv
    pc,              \* position of main()
    argI,            \* 1-based position of the load loop in args
    useRunbook,      \* main.go:29
    runbook,         \* TRUE iff the *RunbookClient is non-nil (main.go:15)
    checklistFiles,  \* main.go:30
    declared,        \* ghost: each file's Checklist as loaded, before expansion
    failed,          \* main.go:71
    envFile,         \* 1-based position of the outer loop of main.go:72
    envVisited,      \* ghost: <<file position, key>> pairs visited by main.go:73
    envGot,          \* ghost: <<file position, key, value>> of each os.Getenv result
    envErrs,         \* ghost: <<file position, key>> of each command that failed
    stepFile,        \* 1-based position of the outer loop of main.go:102
    stepI,           \* 1-based position of the inner loop of main.go:104
    fetchLog,        \* ghost: ChecklistFromRunbook calls, in call order
    listing,         \* lines printed by the -l listing (main.go:123)
    listTotal,       \* the total printed at main.go:127, -1 when not printed
    runnerCreated,   \* CreateRunner returned a runner (main.go:150)
    missing,         \* what runner.GetMissingTools() returned (main.go:157)
    missingReported, \* names printed at main.go:161
    allItems,        \* main.go:171
    capItems,        \* cap(allItems)
    failure,         \* main.go:178
    loopI,           \* 0-based index of the item the current loop is at
    results,         \* ghost: items rendered, in order: [idx, kind, reason]
    runnerCalls,     \* ghost: 0-based indices handed to RunItemCheck/UxCheckItem
    updates,         \* ghost: ChecklistItemUpdate calls, in call order
    banner,          \* "none", "header" printed, then "pass" or "fail"
    exitCode,        \* -1 while running
    exitReason       \* why the process ended

inputs == <<args, fSkip, fList, fAuto, osEnv>>
loadVars == <<argI, useRunbook, declared>>
envVars == <<failed, envFile, envVisited, envGot, envErrs>>
stepVars == <<stepFile, stepI, fetchLog>>
listVars == <<listing, listTotal>>
prepVars == <<runnerCreated, missing, missingReported, allItems, capItems>>
loopVars == <<failure, loopI, results, runnerCalls, updates>>
exitVars == <<exitCode, exitReason>>

vars == <<args, fSkip, fList, fAuto, osEnv, pc, argI, useRunbook, runbook,
          checklistFiles, declared, failed, envFile, envVisited, envGot,
          envErrs, stepFile, stepI, fetchLog, listing, listTotal, runnerCreated,
          missing, missingReported, allItems, capItems, failure, loopI, results,
          runnerCalls, updates, banner, exitCode, exitReason>>

-----------------------------------------------------------------------------
(* Bounds of the model *)

MaxArgs == 2        \* most positional arguments
MaxSkip == 4        \* largest -s value tried (the smallest is -1)
MaxFetch == 2       \* most items the remote service holds for a step
MaxUpdateErrs == 1  \* most ChecklistItemUpdate calls that fail in one run

-----------------------------------------------------------------------------
(* Strings *)

HasPrefix(s, p) == Len(s) >= Len(p) /\ SubSeq(s, 1, Len(p)) = p

RunbookPrefix == <<"r", "u", "n", "b", "o", "o", "k", ":">>

CmdPrefix == <<"$", "{">>

RequiredMarker == <<"<">>

TrimChars == {"\n", "\r", "\t", " "}

RECURSIVE TrimRight(_)
TrimRight(s) ==
    IF s = <<>> THEN <<>>
    ELSE IF s[Len(s)] \in TrimChars THEN TrimRight(SubSeq(s, 1, Len(s) - 1))
    ELSE s

-----------------------------------------------------------------------------
(* The inputs: checklist sources, their content, the process environment *)

EmptyEnv == [k \in {} |-> <<>>]

Item(title, check, id, step) ==
    [Title |-> title, HasCheck |-> check, RunbookID |-> id, RunbookStep |-> step]

\* The zero value of ChecklistItem.
ZeroItem == Item(<<>>, FALSE, <<>>, <<>>)

Step1 == <<"s", "1">>
Step2 == <<"s", "2">>

FileA ==
    [Title |-> "A", Filename |-> <<"a">>,
     Env |-> [k \in {"K1", "K2", "K3"} |->
                 CASE k = "K1" -> <<"$", "{", "c", "}">>
                   [] k = "K2" -> <<"<">>
                   [] k = "K3" -> <<"$", "{", "}">>],
     Checklist |-> << Item(<<"a", 1>>, TRUE, <<>>, <<>>),
                      Item(<<"a", 2>>, FALSE, <<>>, <<>>),
                      Item(<<"a", 3>>, TRUE, <<>>, <<>>) >>,
     RunbookSteps |-> <<>>]

FileB ==
    [Title |-> "B", Filename |-> <<"b">>,
     Env |-> [k \in {"K1", "K2", "K3"} |->
                 CASE k = "K1" -> <<"$", "{">>
                   [] k = "K2" -> <<"<">>
                   [] k = "K3" -> <<"v", " ">>],
     Checklist |-> << Item(<<"b", 1>>, TRUE, <<>>, <<>>) >>,
     RunbookSteps |-> << Step1, Step2 >>]

FileC ==
    [Title |-> "C", Filename |-> <<"c">>,
     Env |-> EmptyEnv,
     Checklist |-> << Item(<<"c", 1>>, TRUE, <<"i", 0>>, <<"s", "0">>) >>,
     RunbookSteps |-> <<>>]

Sources == { <<"a">>, <<"b">>, <<"c">>, <<"x">>, RunbookPrefix \o Step1 }

\* The result of LoadChecklist(fname): <<"x">> is unreadable.
LoadChecklist(fname) ==
    CASE fname = <<"a">> -> [err |-> FALSE, file |-> FileA]
      [] fname = <<"b">> -> [err |-> FALSE, file |-> FileB]
      [] fname = <<"c">> -> [err |-> FALSE, file |-> FileC]
      [] OTHER -> [err |-> TRUE, file |-> FileA]

RECURSIVE SeqsUpTo(_, _)
SeqsUpTo(S, n) ==
    IF n = 0 THEN { <<>> }
    ELSE LET shorter == SeqsUpTo(S, n - 1)
         IN shorter \cup { Append(s, x) : s \in { t \in shorter : Len(t) = n - 1 }, x \in S }

OsEnvKeys == {"K2"}

OsEnvValues == { <<>>, <<" ">> }

Getenv(key) == IF key \in DOMAIN osEnv THEN osEnv[key] ELSE <<>>

-----------------------------------------------------------------------------

Init ==
    /\ args \in SeqsUpTo(Sources, MaxArgs)
    /\ fSkip \in -1 .. MaxSkip
    /\ fList \in BOOLEAN
    /\ fAuto \in BOOLEAN
    /\ osEnv \in [OsEnvKeys -> OsEnvValues]
    /\ pc = "start"
    /\ argI = 1
    /\ useRunbook = FALSE
    /\ runbook = FALSE
    /\ checklistFiles = <<>>
    /\ declared = <<>>
    /\ failed = FALSE
    /\ envFile = 1
    /\ envVisited = {}
    /\ envGot = {}
    /\ envErrs = {}
    /\ stepFile = 1
    /\ stepI = 1
    /\ fetchLog = <<>>
    /\ listing = <<>>
    /\ listTotal = -1
    /\ runnerCreated = FALSE
    /\ missing = <<>>
    /\ missingReported = <<>>
    /\ allItems = <<>>
    /\ capItems = 0
    /\ failure = FALSE
    /\ loopI = 0
    /\ results = <<>>
    /\ runnerCalls = <<>>
    /\ updates = <<>>
    /\ banner = "none"
    /\ exitCode = -1
    /\ exitReason = "running"

\* The process ends: return from main() is code 0, os.Exit(c) is c, a panic is 2.
Exit(code, reason) ==
    /\ pc' = "exited"
    /\ exitCode' = code
    /\ exitReason' = reason

-----------------------------------------------------------------------------
(* main.go:23-26 *)
CheckArgs ==
    /\ pc = "start"
    /\ IF Len(args) = 0
       THEN Exit(0, "noArgs")
       ELSE pc' = "load" /\ UNCHANGED exitVars
    /\ UNCHANGED <<inputs, loadVars, runbook, checklistFiles, envVars, stepVars,
                   listVars, prepVars, loopVars, banner>>

\* Does the ChecklistFile need the runbook client (main.go:49-56)?
NeedsRunbook(file) ==
    \/ Len(file.RunbookSteps) > 0
    \/ \E i \in 1 .. Len(file.Checklist) : file.Checklist[i].RunbookID # <<>>

\* The ChecklistFile synthesized for a "runbook:" argument (main.go:33-38).
RunbookFile(fname) ==
    [Title |-> "Runbook Checklist", Filename |-> <<>>, Env |-> EmptyEnv,
     Checklist |-> <<>>,
     RunbookSteps |-> << SubSeq(fname, Len(RunbookPrefix) + 1, Len(fname)) >>]

(* main.go:31-59, one iteration of the loop over flag.Args() *)
LoadArg ==
    /\ pc = "load"
    /\ argI <= Len(args)
    /\ LET fname == args[argI]
           loaded == LoadChecklist(fname)
           more == IF argI = Len(args) THEN "client" ELSE "load"
       IN IF HasPrefix(fname, RunbookPrefix)
          THEN /\ useRunbook' = TRUE
               /\ checklistFiles' = Append(checklistFiles, RunbookFile(fname))
               /\ declared' = Append(declared, <<>>)
               /\ argI' = argI + 1
               /\ pc' = more
               /\ UNCHANGED exitVars
          ELSE IF loaded.err
          THEN /\ Exit(0, "loadError")
               /\ UNCHANGED <<useRunbook, checklistFiles, declared, argI>>
          ELSE /\ useRunbook' = (useRunbook \/ NeedsRunbook(loaded.file))
               /\ checklistFiles' = Append(checklistFiles, loaded.file)
               /\ declared' = Append(declared, loaded.file.Checklist)
               /\ argI' = argI + 1
               /\ pc' = more
               /\ UNCHANGED exitVars
    /\ UNCHANGED <<inputs, runbook, envVars, stepVars, listVars, prepVars,
                   loopVars, banner>>

\* The first file at position >= f whose Env still has an unvisited key.
NextEnvFile(files, visited, f) ==
    LET open == { g \in f .. Len(files) :
                    \E k \in DOMAIN files[g].Env : <<g, k>> \notin visited }
    IN IF open = {} THEN Len(files) + 1
       ELSE CHOOSE g \in open : \A h \in open : g <= h

(* main.go:61-68 *)
CreateRunbookClient ==
    /\ pc = "client"
    /\ IF useRunbook
       THEN \E ok \in BOOLEAN :
               IF ok
               THEN runbook' = TRUE /\ pc' = "env" /\ UNCHANGED exitVars
               ELSE Exit(1, "runbookError") /\ UNCHANGED runbook
       ELSE pc' = "env" /\ UNCHANGED <<runbook, exitVars>>
    /\ envFile' = NextEnvFile(checklistFiles, {}, 1)
    /\ UNCHANGED <<inputs, loadVars, checklistFiles, failed, envVisited, envGot,
                   envErrs, stepVars, listVars, prepVars, loopVars, banner>>

\* What a command can print on its standard output.
CmdOutputs == { <<"o", "\n">>, <<"o", " ", "\t", "\r">> }

\* What exec.Command("bash", "-c", cmd).Output() can return: the empty
\* command prints nothing; a failing command may have printed nothing.
CmdResults(cmd) ==
    IF cmd = <<>>
    THEN [out : { <<>> }, err : BOOLEAN]
    ELSE [out : CmdOutputs, err : BOOLEAN] \cup { [out |-> <<>>, err |-> TRUE] }

\* The command of a "${...}" marker (main.go:80).
Command(value) == SubSeq(value, 3, Len(value) - 1)

\* ResolveValue taking a variable that holds only white space for empty.
ResolveValue_TrimEmpty(key, value, r) ==
    IF HasPrefix(value, CmdPrefix)
    THEN IF Len(value) < 3
         THEN [value |-> <<>>, fail |-> FALSE]
         ELSE [value |-> TrimRight(r.out), fail |-> r.err]
    ELSE IF value = RequiredMarker
    THEN [value |-> value, fail |-> (TrimRight(Getenv(key)) = <<>>)]
    ELSE [value |-> value, fail |-> FALSE]

\* The resolution of one Env entry (main.go:74-94): the new value of the entry
\* and whether a failure is recorded, given the result r of running a command.
ResolveValue(key, value, r) ==
    IF HasPrefix(value, CmdPrefix)
    THEN IF Len(value) < 3
         THEN [value |-> <<>>, fail |-> FALSE]
         ELSE [value |-> TrimRight(r.out), fail |-> r.err]
    ELSE IF value = RequiredMarker
    THEN [value |-> value, fail |-> (Getenv(key) = <<>>)]
    ELSE [value |-> value, fail |-> FALSE]

\* Does the entry run a shell command (main.go:80-81)?
RunsCommand(value) == HasPrefix(value, CmdPrefix) /\ Len(value) >= 3

\* ResolveEnv ending the process at the first failure instead of going on.
ResolveEnv_FailFast ==
    /\ pc = "env"
    /\ envFile <= Len(checklistFiles)
    /\ \E key \in DOMAIN checklistFiles[envFile].Env :
         /\ <<envFile, key>> \notin envVisited
         /\ \E r \in CmdResults(Command(checklistFiles[envFile].Env[key])) :
              LET value == checklistFiles[envFile].Env[key]
                  res == ResolveValue(key, value, r)
              IN /\ RunsCommand(value) \/ r = [out |-> <<>>, err |-> FALSE]
                 /\ failed' = (failed \/ res.fail)
                 /\ checklistFiles' =
                      [checklistFiles EXCEPT ![envFile].Env[key] = res.value]
                 /\ envVisited' = envVisited \cup { <<envFile, key>> }
                 /\ envGot' = IF value = RequiredMarker
                              THEN envGot \cup { <<envFile, key, Getenv(key)>> }
                              ELSE envGot
                 /\ envErrs' = IF RunsCommand(value) /\ r.err
                               THEN envErrs \cup { <<envFile, key>> }
                               ELSE envErrs
                 /\ envFile' = NextEnvFile(checklistFiles, envVisited', envFile)
                 /\ IF res.fail
                    THEN Exit(1, "envFailed")
                    ELSE UNCHANGED <<pc, exitVars>>
    /\ UNCHANGED <<inputs, loadVars, runbook, stepVars, listVars, prepVars,
                   loopVars, banner>>

(* main.go:72-96, one iteration of the loop over file.Env *)
ResolveEnv ==
    /\ pc = "env"
    /\ envFile <= Len(checklistFiles)
    /\ \E key \in DOMAIN checklistFiles[envFile].Env :
         /\ <<envFile, key>> \notin envVisited
         /\ \E r \in CmdResults(Command(checklistFiles[envFile].Env[key])) :
              LET value == checklistFiles[envFile].Env[key]
                  res == ResolveValue(key, value, r)
              IN /\ RunsCommand(value) \/ r = [out |-> <<>>, err |-> FALSE]
                 /\ failed' = (failed \/ res.fail)
                 /\ checklistFiles' =
                      [checklistFiles EXCEPT ![envFile].Env[key] = res.value]
                 /\ envVisited' = envVisited \cup { <<envFile, key>> }
                 /\ envGot' = IF value = RequiredMarker
                              THEN envGot \cup { <<envFile, key, Getenv(key)>> }
                              ELSE envGot
                 /\ envErrs' = IF RunsCommand(value) /\ r.err
                               THEN envErrs \cup { <<envFile, key>> }
                               ELSE envErrs
                 /\ envFile' = NextEnvFile(checklistFiles, envVisited', envFile)
    /\ UNCHANGED <<inputs, loadVars, runbook, pc, stepVars, listVars, prepVars,
                   loopVars, banner, exitVars>>

\* The first file at position >= f that declares remote steps.
NextStepFile(files, f) ==
    LET open == { g \in f .. Len(files) : Len(files[g].RunbookSteps) > 0 }
    IN IF open = {} THEN Len(files) + 1
       ELSE CHOOSE g \in open : \A h \in open : g <= h

\* EnvDone going on to the expansion whatever the failure flag says.
EnvDone_Ignore ==
    /\ pc = "env"
    /\ envFile > Len(checklistFiles)
    /\ pc' = "expand"
    /\ stepFile' = NextStepFile(checklistFiles, 1)
    /\ UNCHANGED exitVars
    /\ UNCHANGED <<inputs, loadVars, runbook, checklistFiles, envVars, stepI,
                   fetchLog, listVars, prepVars, loopVars, banner>>

(* main.go:97-99 *)
EnvDone ==
    /\ pc = "env"
    /\ envFile > Len(checklistFiles)
    /\ IF failed
       THEN Exit(1, "envFailed") /\ UNCHANGED stepFile
       ELSE /\ pc' = "expand"
            /\ stepFile' = NextStepFile(checklistFiles, 1)
            /\ UNCHANGED exitVars
    /\ UNCHANGED <<inputs, loadVars, runbook, checklistFiles, envVars, stepI,
                   fetchLog, listVars, prepVars, loopVars, banner>>

\* An item the remote service returns for a step.
RemoteItem(step, k) == Item(<<"r", k>>, k % 2 = 1, <<"i", k>>, step)

\* The number of items the remote service holds for a step.
RemoteCount(step) ==
    CASE step = Step1 -> MaxFetch
      [] step = Step2 -> 1
      [] OTHER -> 0

\* What runbook.ChecklistFromRunbook(step) can return: an error, or the items
\* of the step in the order of the remote service.
FetchResults(step) ==
    { [err |-> TRUE, items |-> <<>>],
      [err |-> FALSE,
       items |-> [k \in 1 .. RemoteCount(step) |-> RemoteItem(step, k)]] }

\* FetchStep putting the fetched items in front of the Checklist.
FetchStep_Prepend ==
    /\ pc = "expand"
    /\ stepFile <= Len(checklistFiles)
    /\ LET list == checklistFiles[stepFile]
           step == list.RunbookSteps[stepI]
       IN \E r \in FetchResults(step) :
            /\ fetchLog' = Append(fetchLog,
                 [file |-> stepFile, step |-> step, err |-> r.err,
                  items |-> r.items, client |-> runbook])
            /\ IF r.err
               THEN /\ Exit(1, "fetchError")
                    /\ UNCHANGED <<checklistFiles, stepFile, stepI>>
               ELSE /\ checklistFiles' =
                         [checklistFiles EXCEPT ![stepFile].Checklist = r.items \o @]
                    /\ IF stepI < Len(list.RunbookSteps)
                       THEN stepI' = stepI + 1 /\ UNCHANGED stepFile
                       ELSE /\ stepI' = 1
                            /\ stepFile' = NextStepFile(checklistFiles, stepFile + 1)
                    /\ UNCHANGED <<pc, exitVars>>
    /\ UNCHANGED <<inputs, loadVars, runbook, envVars, listVars, prepVars,
                   loopVars, banner>>

\* FetchStep going on to the next step when a fetch fails.
FetchStep_SkipFailed ==
    /\ pc = "expand"
    /\ stepFile <= Len(checklistFiles)
    /\ LET list == checklistFiles[stepFile]
           step == list.RunbookSteps[stepI]
       IN \E r \in FetchResults(step) :
            /\ fetchLog' = Append(fetchLog,
                 [file |-> stepFile, step |-> step, err |-> r.err,
                  items |-> r.items, client |-> runbook])
            /\ checklistFiles' =
                 [checklistFiles EXCEPT ![stepFile].Checklist = @ \o r.items]
            /\ IF stepI < Len(list.RunbookSteps)
               THEN stepI' = stepI + 1 /\ UNCHANGED stepFile
               ELSE /\ stepI' = 1
                    /\ stepFile' = NextStepFile(checklistFiles, stepFile + 1)
            /\ UNCHANGED <<pc, exitVars>>
    /\ UNCHANGED <<inputs, loadVars, runbook, envVars, listVars, prepVars,
                   loopVars, banner>>

(* main.go:102-114, one iteration of the loop over list.RunbookSteps *)
FetchStep ==
    /\ pc = "expand"
    /\ stepFile <= Len(checklistFiles)
    /\ LET list == checklistFiles[stepFile]
           step == list.RunbookSteps[stepI]
       IN \E r \in FetchResults(step) :
            /\ fetchLog' = Append(fetchLog,
                 [file |-> stepFile, step |-> step, err |-> r.err,
                  items |-> r.items, client |-> runbook])
            /\ IF r.err
               THEN /\ Exit(1, "fetchError")
                    /\ UNCHANGED <<checklistFiles, stepFile, stepI>>
               ELSE /\ checklistFiles' =
                         [checklistFiles EXCEPT ![stepFile].Checklist = @ \o r.items]
                    /\ IF stepI < Len(list.RunbookSteps)
                       THEN stepI' = stepI + 1 /\ UNCHANGED stepFile
                       ELSE /\ stepI' = 1
                            /\ stepFile' = NextStepFile(checklistFiles, stepFile + 1)
                    /\ UNCHANGED <<pc, exitVars>>
    /\ UNCHANGED <<inputs, loadVars, runbook, envVars, listVars, prepVars,
                   loopVars, banner>>

\* ExpandDone leaving the expansion loop before every step was fetched.
ExpandDone_Early ==
    /\ pc = "expand"
    /\ pc' = "list"
    /\ UNCHANGED <<inputs, loadVars, runbook, checklistFiles, envVars, stepVars,
                   listVars, prepVars, loopVars, banner, exitVars>>

(* main.go:102, 114: the loop over checklistFiles is exhausted *)
ExpandDone ==
    /\ pc = "expand"
    /\ stepFile > Len(checklistFiles)
    /\ pc' = "list"
    /\ UNCHANGED <<inputs, loadVars, runbook, checklistFiles, envVars, stepVars,
                   listVars, prepVars, loopVars, banner, exitVars>>

RECURSIVE Flatten(_)
\* The concatenation of every file's Checklist, in file order (main.go:171-176).
Flatten(files) ==
    IF files = <<>> THEN <<>>
    ELSE Head(files).Checklist \o Flatten(Tail(files))

\* The line printed for a file (main.go:120) and for an item (main.go:123);
\* file is the position of the file whose group the line belongs to.
FileLine(files, f) ==
    [kind |-> "file", file |-> f, n |-> 0, text |-> files[f].Filename]

ItemLine(files, f, k, n) ==
    [kind |-> "item", file |-> f, n |-> n, text |-> files[f].Checklist[k].Title]

RECURSIVE ListFrom(_, _, _)
\* The lines printed for the files at positions f.., i items having been
\* printed so far (main.go:119-126): i is incremented before each item line.
ListFrom(files, f, i) ==
    IF f > Len(files) THEN <<>>
    ELSE << FileLine(files, f) >>
           \o [k \in 1 .. Len(files[f].Checklist) |-> ItemLine(files, f, k, i + k)]
           \o ListFrom(files, f + 1, i + Len(files[f].Checklist))

RECURSIVE ListFromPerFile(_, _)
ListFromPerFile(files, f) ==
    IF f > Len(files) THEN <<>>
    ELSE << FileLine(files, f) >>
           \o [k \in 1 .. Len(files[f].Checklist) |-> ItemLine(files, f, k, k)]
           \o ListFromPerFile(files, f + 1)

\* ListLines with the index starting again at 1 in every file.
ListLines_PerFile(files) == ListFromPerFile(files, 1)

\* The lines the -l listing prints (main.go:118-126).
ListLines(files) == ListFrom(files, 1, 0)

(* main.go:116-129 *)
ListItems ==
    /\ pc = "list"
    /\ IF fList
       THEN /\ listing' = ListLines(checklistFiles)
            /\ listTotal' = Len(Flatten(checklistFiles))
            /\ Exit(0, "listed")
       ELSE /\ pc' = "config"
            /\ UNCHANGED <<listVars, exitVars>>
    /\ UNCHANGED <<inputs, loadVars, runbook, checklistFiles, envVars, stepVars,
                   prepVars, loopVars, banner>>

(* main.go:131-146: CreateConfig and AddChecklistFile may fail *)
PrepareConfig ==
    /\ pc = "config"
    /\ \E r \in {"ok", "configError", "addFileError"} :
         IF r = "ok"
         THEN pc' = "runner" /\ UNCHANGED exitVars
         ELSE Exit(0, r)
    /\ UNCHANGED <<inputs, loadVars, runbook, checklistFiles, envVars, stepVars,
                   listVars, prepVars, loopVars, banner>>

(* main.go:148-154 *)
CreateRunner ==
    /\ pc = "runner"
    /\ \E ok \in BOOLEAN :
         IF ok
         THEN runnerCreated' = TRUE /\ pc' = "tools" /\ UNCHANGED exitVars
         ELSE Exit(0, "runnerError") /\ UNCHANGED runnerCreated
    /\ UNCHANGED <<inputs, loadVars, runbook, checklistFiles, envVars, stepVars,
                   listVars, missing, missingReported, allItems, capItems,
                   loopVars, banner>>

\* What runner.GetMissingTools() can return.
MissingChoices == { <<>>, <<"jq">>, <<"jq", "curl">> }

RECURSIVE GrowCap(_, _)
\* cap() of a nil slice after n single-element appends (the runtime doubles
\* the capacity of a small slice when it is full).
GrowCap(n, c) ==
    IF n = 0 THEN c
    ELSE LET used == GrowCap(n - 1, c)
         IN IF n - 1 < used THEN used
            ELSE IF used = 0 THEN 1 ELSE 2 * used

\* CheckTools reporting only the first missing tool.
CheckTools_FirstOnly ==
    /\ pc = "tools"
    /\ \E tools \in MissingChoices :
         /\ missing' = tools
         /\ IF Len(tools) > 0
            THEN /\ missingReported' = << tools[1] >>
                 /\ Exit(0, "missingTools")
                 /\ UNCHANGED <<banner, allItems, capItems>>
            ELSE /\ banner' = "header"
                 /\ allItems' = Flatten(checklistFiles)
                 /\ capItems' = GrowCap(Len(Flatten(checklistFiles)), 0)
                 /\ pc' = "sliceBlank"
                 /\ UNCHANGED <<missingReported, exitVars>>
    /\ UNCHANGED <<inputs, loadVars, runbook, checklistFiles, envVars, stepVars,
                   listVars, runnerCreated, loopVars>>

(* main.go:156-178: the tool gate, the header and the flattening *)
CheckTools ==
    /\ pc = "tools"
    /\ \E tools \in MissingChoices :
         /\ missing' = tools
         /\ IF Len(tools) > 0
            THEN /\ missingReported' = [k \in 1 .. Len(tools) |-> tools[k]]
                 /\ Exit(0, "missingTools")
                 /\ UNCHANGED <<banner, allItems, capItems>>
            ELSE /\ banner' = "header"
                 /\ allItems' = Flatten(checklistFiles)
                 /\ capItems' = GrowCap(Len(Flatten(checklistFiles)), 0)
                 /\ pc' = "sliceBlank"
                 /\ UNCHANGED <<missingReported, exitVars>>
    /\ UNCHANGED <<inputs, loadVars, runbook, checklistFiles, envVars, stepVars,
                   listVars, runnerCreated, loopVars>>

\* The element at 0-based index i of the backing array of allItems: the
\* elements between len and cap are zero values.
ItemAt(i) == IF i < Len(allItems) THEN allItems[i + 1] ELSE ZeroItem

Rendered(i, kind, reason) ==
    [idx |-> i, title |-> ItemAt(i).Title, kind |-> kind, reason |-> reason]

(* main.go:179: allItems[:*fSkipPtr] panics unless 0 <= skip <= cap *)
SliceBlank ==
    /\ pc = "sliceBlank"
    /\ IF fSkip < 0 \/ fSkip > capItems
       THEN Exit(2, "panicSliceBlank") /\ UNCHANGED loopI
       ELSE /\ pc' = IF fSkip = 0 THEN "sliceActive" ELSE "blank"
            /\ loopI' = 0
            /\ UNCHANGED exitVars
    /\ UNCHANGED <<inputs, loadVars, runbook, checklistFiles, envVars, stepVars,
                   listVars, prepVars, failure, results, runnerCalls, updates,
                   banner>>

(* main.go:179-181, one iteration *)
BlankItem ==
    /\ pc = "blank"
    /\ loopI < fSkip
    /\ results' = Append(results, Rendered(loopI, "Blank", ""))
    /\ loopI' = loopI + 1
    /\ pc' = IF loopI + 1 = fSkip THEN "sliceActive" ELSE "blank"
    /\ UNCHANGED <<inputs, loadVars, runbook, checklistFiles, envVars, stepVars,
                   listVars, prepVars, failure, runnerCalls, updates, banner,
                   exitVars>>

\* SliceActive with the active region starting at index 0 instead of skip.
SliceActive_FromZero ==
    /\ pc = "sliceActive"
    /\ IF fSkip > Len(allItems)
       THEN Exit(2, "panicSliceActive") /\ UNCHANGED loopI
       ELSE /\ pc' = IF Len(allItems) = 0 THEN "banner" ELSE "exec"
            /\ loopI' = 0
            /\ UNCHANGED exitVars
    /\ UNCHANGED <<inputs, loadVars, runbook, checklistFiles, envVars, stepVars,
                   listVars, prepVars, failure, results, runnerCalls, updates,
                   banner>>

(* main.go:182: allItems[*fSkipPtr:] panics unless skip <= len *)
SliceActive ==
    /\ pc = "sliceActive"
    /\ IF fSkip > Len(allItems)
       THEN Exit(2, "panicSliceActive") /\ UNCHANGED loopI
       ELSE /\ pc' = IF fSkip = Len(allItems) THEN "banner" ELSE "exec"
            /\ loopI' = fSkip
            /\ UNCHANGED exitVars
    /\ UNCHANGED <<inputs, loadVars, runbook, checklistFiles, envVars, stepVars,
                   listVars, prepVars, failure, results, runnerCalls, updates,
                   banner>>

\* The loop of main.go:182 moves to the next item, or ends.
NextItem ==
    /\ loopI' = loopI + 1
    /\ pc' = IF loopI + 1 = Len(allItems) THEN "banner" ELSE "exec"

(* main.go:183-184 *)
SkipAborted ==
    /\ pc = "exec"
    /\ failure
    /\ results' = Append(results, Rendered(loopI, "Skipped", "ABORTED"))
    /\ NextItem
    /\ UNCHANGED <<inputs, loadVars, runbook, checklistFiles, envVars, stepVars,
                   listVars, prepVars, failure, runnerCalls, updates, banner,
                   exitVars>>

\* Does the item have an automated check?
CanCheckItem(item) == item.HasCheck

\* AutoNoCheck counting an item without a check as a failure.
AutoNoCheck_Fails ==
    /\ pc = "exec"
    /\ ~failure
    /\ fAuto
    /\ ~CanCheckItem(ItemAt(loopI))
    /\ results' = Append(results, Rendered(loopI, "Skipped", "NO CHECKS"))
    /\ failure' = TRUE
    /\ NextItem
    /\ UNCHANGED <<inputs, loadVars, runbook, checklistFiles, envVars, stepVars,
                   listVars, prepVars, runnerCalls, updates, banner, exitVars>>

(* main.go:187-190 *)
AutoNoCheck ==
    /\ pc = "exec"
    /\ ~failure
    /\ fAuto
    /\ ~CanCheckItem(ItemAt(loopI))
    /\ results' = Append(results, Rendered(loopI, "Skipped", "NO CHECKS"))
    /\ NextItem
    /\ UNCHANGED <<inputs, loadVars, runbook, checklistFiles, envVars, stepVars,
                   listVars, prepVars, failure, runnerCalls, updates, banner,
                   exitVars>>

\* What a check can capture on stdout.
Outputs == { <<>>, <<"o">> }

\* What UxCheckItem can return: ok, result.Stdout, result.Stderr.
UxResults ==
    { [ok |-> TRUE, stdout |-> <<>>, stderr |-> <<>>] } \cup
    { [ok |-> FALSE, stdout |-> o, stderr |-> <<"e">>] : o \in Outputs }

\* What RunItemCheck can return: err # nil, ok = false, or ok = true.
CheckOutcomes == {"error", "fail", "pass"}

\* AutoCheck with the abort flag left alone when the check raises an error.
AutoCheck_ErrorNoAbort ==
    /\ pc = "exec"
    /\ ~failure
    /\ fAuto
    /\ CanCheckItem(ItemAt(loopI))
    /\ runnerCalls' = Append(runnerCalls, loopI)
    /\ \E r \in CheckOutcomes :
         IF r = "pass"
         THEN /\ results' = Append(results, Rendered(loopI, "Passed", ""))
              /\ UNCHANGED failure
         ELSE /\ results' = Append(results, Rendered(loopI, "Failed", r))
              /\ failure' = (r = "fail")
    /\ NextItem
    /\ UNCHANGED <<inputs, loadVars, runbook, checklistFiles, envVars, stepVars,
                   listVars, prepVars, updates, banner, exitVars>>

\* AutoCheck ending the process at once when the check raises an error.
AutoCheck_ErrorExits ==
    /\ pc = "exec"
    /\ ~failure
    /\ fAuto
    /\ CanCheckItem(ItemAt(loopI))
    /\ runnerCalls' = Append(runnerCalls, loopI)
    /\ \E r \in CheckOutcomes :
         IF r = "pass"
         THEN /\ results' = Append(results, Rendered(loopI, "Passed", ""))
              /\ NextItem
              /\ UNCHANGED <<failure, exitVars>>
         ELSE /\ results' = Append(results, Rendered(loopI, "Failed", r))
              /\ failure' = TRUE
              /\ IF r = "error"
                 THEN Exit(1, "checkError") /\ UNCHANGED loopI
                 ELSE NextItem /\ UNCHANGED exitVars
    /\ UNCHANGED <<inputs, loadVars, runbook, checklistFiles, envVars, stepVars,
                   listVars, prepVars, updates, banner>>

(* main.go:191-202 *)
AutoCheck ==
    /\ pc = "exec"
    /\ ~failure
    /\ fAuto
    /\ CanCheckItem(ItemAt(loopI))
    /\ runnerCalls' = Append(runnerCalls, loopI)
    /\ \E r \in CheckOutcomes :
         IF r = "pass"
         THEN /\ results' = Append(results, Rendered(loopI, "Passed", ""))
              /\ UNCHANGED failure
         ELSE /\ results' = Append(results, Rendered(loopI, "Failed", r))
              /\ failure' = TRUE
    /\ NextItem
    /\ UNCHANGED <<inputs, loadVars, runbook, checklistFiles, envVars, stepVars,
                   listVars, prepVars, updates, banner, exitVars>>

\* The note sent with a failed item (main.go:210); "FENCE" stands for the
\* three backquotes of a code fence.
FailNote(stdout, stderr) ==
    <<"Script failed with:", "\n", "FENCE", "\n">> \o stdout
        \o <<"\n", "---", "\n">> \o stderr \o <<"\n", "FENCE", "\n">>

StatusCompleted == 1
StatusFailed == 2

\* One call runbook.ChecklistItemUpdate(step, id, status, note); client tells
\* whether the receiver is a client or nil, err whether the call returned an
\* error (which main.go:211 and main.go:219 drop).
UpdateCall(i, status, note, err) ==
    [idx |-> i, step |-> ItemAt(i).RunbookStep, id |-> ItemAt(i).RunbookID,
     status |-> status, note |-> note, client |-> runbook, err |-> err]

\* The positions of the ChecklistItemUpdate calls that returned an error.
UpdateErrs == { u \in 1 .. Len(updates) : updates[u].err }

\* Does the interactive loop call ChecklistItemUpdate for the item
\* (main.go:207-225)?
Reports(item, ok) == ok \/ item.RunbookID # <<>>

\* Interactive counting a failed ChecklistItemUpdate call as a failed item.
Interactive_UpdateErrorFails ==
    /\ pc = "exec"
    /\ ~failure
    /\ ~fAuto
    /\ runnerCalls' = Append(runnerCalls, loopI)
    /\ \E r \in UxResults, panics \in BOOLEAN, uerr \in BOOLEAN :
         /\ panics => Reports(ItemAt(loopI), r.ok) /\ ~runbook
         /\ uerr => /\ Reports(ItemAt(loopI), r.ok)
                    /\ ~panics
                    /\ Cardinality(UpdateErrs) < MaxUpdateErrs
         /\ failure' = (~r.ok \/ uerr)
         /\ results' = Append(results,
               Rendered(loopI, IF r.ok THEN "Passed" ELSE "Failed", ""))
         /\ updates' =
               IF Reports(ItemAt(loopI), r.ok)
               THEN Append(updates,
                      UpdateCall(loopI,
                                 IF r.ok THEN StatusCompleted ELSE StatusFailed,
                                 IF r.ok THEN <<>> ELSE FailNote(r.stdout, r.stderr),
                                 uerr))
               ELSE updates
         /\ IF panics
            THEN Exit(2, "panicNilClient") /\ UNCHANGED loopI
            ELSE NextItem /\ UNCHANGED exitVars
    /\ UNCHANGED <<inputs, loadVars, runbook, checklistFiles, envVars, stepVars,
                   listVars, prepVars, banner>>

(* main.go:204-226: the interactive branch.  A call on the nil client either *)
(* returns or panics, depending on the body of the method; the value a call   *)
(* returns is dropped.                                                       *)
Interactive ==
    /\ pc = "exec"
    /\ ~failure
    /\ ~fAuto
    /\ runnerCalls' = Append(runnerCalls, loopI)
    /\ \E r \in UxResults, panics \in BOOLEAN, uerr \in BOOLEAN :
         /\ panics => Reports(ItemAt(loopI), r.ok) /\ ~runbook
         /\ uerr => /\ Reports(ItemAt(loopI), r.ok)
                    /\ ~panics
                    /\ Cardinality(UpdateErrs) < MaxUpdateErrs
         /\ failure' = ~r.ok
         /\ results' = Append(results,
               Rendered(loopI, IF r.ok THEN "Passed" ELSE "Failed", ""))
         /\ updates' =
               IF Reports(ItemAt(loopI), r.ok)
               THEN Append(updates,
                      UpdateCall(loopI,
                                 IF r.ok THEN StatusCompleted ELSE StatusFailed,
                                 IF r.ok THEN <<>> ELSE FailNote(r.stdout, r.stderr),
                                 uerr))
               ELSE updates
         /\ IF panics
            THEN Exit(2, "panicNilClient") /\ UNCHANGED loopI
            ELSE NextItem /\ UNCHANGED exitVars
    /\ UNCHANGED <<inputs, loadVars, runbook, checklistFiles, envVars, stepVars,
                   listVars, prepVars, banner>>

\* Banner ending the process by a plain return after the failure banner.
Banner_Return ==
    /\ pc = "banner"
    /\ IF failure
       THEN banner' = "fail" /\ Exit(0, "itemFailed")
       ELSE banner' = "pass" /\ Exit(0, "allPassed")
    /\ UNCHANGED <<inputs, loadVars, runbook, checklistFiles, envVars, stepVars,
                   listVars, prepVars, loopVars>>

(* main.go:230-238 *)
Banner ==
    /\ pc = "banner"
    /\ IF failure
       THEN banner' = "fail" /\ Exit(1, "itemFailed")
       ELSE banner' = "pass" /\ Exit(0, "allPassed")
    /\ UNCHANGED <<inputs, loadVars, runbook, checklistFiles, envVars, stepVars,
                   listVars, prepVars, loopVars>>

Next ==
    \/ CheckArgs
    \/ LoadArg
    \/ CreateRunbookClient
    \/ ResolveEnv
    \/ EnvDone
    \/ FetchStep
    \/ ExpandDone
    \/ ListItems
    \/ PrepareConfig
    \/ CreateRunner
    \/ CheckTools
    \/ SliceBlank
    \/ BlankItem
    \/ SliceActive
    \/ SkipAborted
    \/ AutoNoCheck
    \/ AutoCheck
    \/ Interactive
    \/ Banner

Spec == Init /\ [][Next]_vars

-----------------------------------------------------------------------------
(* Properties *)

\* The execution loop of main.go:182-228 has run to its end.
LoopFinished == pc = "banner" \/ exitReason \in {"allPassed", "itemFailed"}

\* The positions of results that report a failed item.
FailedAt == { k \in 1 .. Len(results) : results[k].kind = "Failed" }

\* The 0-based indices handed to the Runner.
RunnerIdx == { runnerCalls[k] : k \in 1 .. Len(runnerCalls) }

\* C1: fail-stop.  Once an item has been reported Failed, every item rendered
\* after it is Skipped with reason "ABORTED" (also an item without a check),
\* the Runner is invoked for no later index, and when the loop ends every
\* later item of the merged sequence has been reported so.
C1_FailStop ==
    \A k \in FailedAt :
        /\ results[k].idx >= fSkip
        /\ \A j \in k + 1 .. Len(results) :
               /\ results[j].kind = "Skipped"
               /\ results[j].reason = "ABORTED"
        /\ \A i \in RunnerIdx : i <= results[k].idx
        /\ LoopFinished =>
               \A i \in results[k].idx + 1 .. Len(allItems) - 1 :
                   \E j \in k + 1 .. Len(results) : results[j].idx = i

\* C1 witness: an unattended run that ended with a failed item followed by an
\* item without a check, reported "ABORTED".
C1_Witness ==
    /\ pc = "exited"
    /\ fAuto
    /\ \E k \in FailedAt :
          \E j \in k + 1 .. Len(results) :
              /\ results[j].reason = "ABORTED"
              /\ ~ItemAt(results[j].idx).HasCheck

\* The skip count is within the merged sequence, which has been built.
SkipInRange == banner # "none" /\ 0 <= fSkip /\ fSkip <= Len(allItems)

\* C2: for 0 <= skip <= n, items are rendered in increasing index order
\* starting at 0 without gaps or repeats, an item is Blank exactly when its
\* index is below skip, the Runner only sees indices >= skip in increasing
\* order, the active region starts after all skip Blank items, a finished loop
\* has rendered all n items, and with skip = n the run ends with exit code 0
\* and no Runner call.
C2_SkipSplit ==
    SkipInRange =>
        /\ \A k \in 1 .. Len(results) :
               /\ results[k].idx = k - 1
               /\ results[k].kind = "Blank" <=> results[k].idx < fSkip
        /\ \A k \in 1 .. Len(runnerCalls) :
               /\ runnerCalls[k] >= fSkip
               /\ runnerCalls[k] < Len(allItems)
               /\ k > 1 => runnerCalls[k - 1] < runnerCalls[k]
        /\ pc \in {"sliceActive", "exec", "banner", "exited"} => Len(results) >= fSkip
        /\ LoopFinished => Len(results) = Len(allItems)
        /\ (fSkip = Len(allItems) /\ pc = "exited") =>
               /\ exitCode = 0
               /\ exitReason = "allPassed"
               /\ runnerCalls = <<>>
               /\ Len(results) = fSkip

\* C2 witness: a finished run with Blank items followed by executed items.
C2_Witness ==
    /\ SkipInRange
    /\ LoopFinished
    /\ fSkip >= 2
    /\ Len(runnerCalls) >= 2

\* C3: when the execution loop has processed every item, the exit code is 0
\* if no item was reported Failed and 1 otherwise.
C3_ExitCode ==
    (pc = "exited" /\ LoopFinished) =>
        /\ Len(results) >= Len(allItems)
        /\ exitCode = IF FailedAt = {} THEN 0 ELSE 1

\* C3 witness: a run that ended with exit code 0 after rendering a Blank item,
\* a "NO CHECKS" item and a Passed item.
C3_Witness ==
    /\ pc = "exited"
    /\ LoopFinished
    /\ exitCode = 0
    /\ \E k \in 1 .. Len(results) : results[k].kind = "Blank"
    /\ \E k \in 1 .. Len(results) : results[k].reason = "NO CHECKS"
    /\ \E k \in 1 .. Len(results) : results[k].kind = "Passed"

\* Every Env entry of every loaded file, as <<file position, key>>.
AllEntries ==
    UNION { { <<f, k>> : k \in DOMAIN checklistFiles[f].Env } :
              f \in 1 .. Len(checklistFiles) }

\* The resolution pass of main.go:72-96 is over.
EnvPassed ==
    /\ pc \notin {"start", "load", "client", "env"}
    /\ exitReason \notin {"noArgs", "loadError", "runbookError"}

\* Some visited entry failed: its command returned an error, or its "<"
\* marker found the variable empty.
SomeEntryFailed == envErrs # {} \/ \E g \in envGot : g[3] = <<>>

\* C4: accumulate-then-fail.  The failure flag is set exactly when a visited
\* entry failed, and when the resolution pass is over every Env entry of
\* every file has been visited, whether or not entries failed.
C4_EnvAccumulate ==
    /\ failed <=> SomeEntryFailed
    /\ EnvPassed => envVisited = AllEntries

\* C4 witness: resolution ended in failure with a failed command in the first
\* of two files, and the entries of the second file were visited all the same.
C4_Witness ==
    /\ exitReason = "envFailed"
    /\ Len(checklistFiles) = 2
    /\ \E e \in envErrs : e[1] = 1
    /\ \E e \in envVisited : e[1] = 2
    /\ envVisited = AllEntries

\* C5: once an environment failure is recorded the process can only finish
\* the resolution pass and exit with code 1: nothing is fetched, listed,
\* rendered or executed and the Runner is not created.
C5_EnvFailureHalts ==
    failed =>
        /\ pc \in {"env", "exited"}
        /\ pc = "exited" =>
               /\ exitCode = 1
               /\ exitReason = "envFailed"
               /\ envVisited = AllEntries
        /\ fetchLog = <<>>
        /\ listing = <<>>
        /\ listTotal = -1
        /\ ~runnerCreated
        /\ results = <<>>
        /\ runnerCalls = <<>>
        /\ updates = <<>>
        /\ banner = "none"

\* C5 witness: a run with -l and a file that declares remote steps exited
\* with code 1 on an environment failure.
C5_Witness ==
    /\ pc = "exited"
    /\ failed
    /\ exitCode = 1
    /\ fList
    /\ \E f \in 1 .. Len(checklistFiles) : Len(checklistFiles[f].RunbookSteps) > 0

RECURSIVE FetchedFor(_, _)
\* The items the calls of log fetched for the file at position f, in call order.
FetchedFor(log, f) ==
    IF log = <<>> THEN <<>>
    ELSE (IF Head(log).file = f /\ ~Head(log).err THEN Head(log).items ELSE <<>>)
             \o FetchedFor(Tail(log), f)

RECURSIVE StepsFor(_, _)
\* The steps the calls of log fetched for the file at position f, in call order.
StepsFor(log, f) ==
    IF log = <<>> THEN <<>>
    ELSE (IF Head(log).file = f THEN << Head(log).step >> ELSE <<>>)
             \o StepsFor(Tail(log), f)

RECURSIVE ExpectedFrom(_)
\* Files f.. in order: the declared items, then the fetched items.
ExpectedFrom(f) ==
    IF f > Len(declared) THEN <<>>
    ELSE declared[f] \o FetchedFor(fetchLog, f) \o ExpectedFrom(f + 1)

RECURSIVE SumLen(_, _)
SumLen(seqs, k) == IF k > Len(seqs) THEN 0 ELSE Len(seqs[k]) + SumLen(seqs, k + 1)

\* C6: the flattened sequence is, file by file in argument order, the declared
\* items followed by the items fetched for the file's steps in declared step
\* order; its length is the number of declared plus the number of fetched
\* items.
C6_MergedOrder ==
    banner # "none" =>
        /\ allItems = ExpectedFrom(1)
        /\ Len(allItems) = SumLen(declared, 1)
                             + SumLen([k \in 1 .. Len(fetchLog) |-> fetchLog[k].items], 1)
        /\ Len(declared) = Len(args)
        /\ \A f \in 1 .. Len(checklistFiles) :
               StepsFor(fetchLog, f) = checklistFiles[f].RunbookSteps
        /\ \A k \in 2 .. Len(fetchLog) : fetchLog[k - 1].file <= fetchLog[k].file

\* C6 witness: two files, the first with declared items and two fetched
\* steps, the second with declared items, were flattened.
C6_Witness ==
    /\ banner # "none"
    /\ Len(declared) = 2
    /\ declared[1] # <<>>
    /\ declared[2] # <<>>
    /\ Len(StepsFor(fetchLog, 1)) = 2
    /\ Len(FetchedFor(fetchLog, 1)) >= 3

\* C7: every fatal startup error (no argument, a checklist that fails to
\* load, missing executables) ends the process with a nonzero exit code.
C7_FatalStartupNonzero ==
    (pc = "exited" /\ exitReason \in {"noArgs", "loadError", "missingTools"})
        => exitCode # 0

\* C8: when GetMissingTools returns a non-empty result the run ends there,
\* every missing tool has been reported, and no item was rendered, executed
\* or reported to the remote service and no final banner was printed.
C8_ToolGate ==
    /\ missing # <<>> =>
           /\ pc = "exited"
           /\ exitReason = "missingTools"
           /\ missingReported = missing
           /\ results = <<>>
           /\ runnerCalls = <<>>
           /\ updates = <<>>
           /\ banner = "none"
    /\ exitReason = "missingTools" => missing # <<>>

\* C8 witness: two tools were missing in a run with items to render Blank
\* and items to execute.
C8_Witness ==
    /\ exitReason = "missingTools"
    /\ Len(missingReported) = 2
    /\ fSkip > 0
    /\ Len(Flatten(checklistFiles)) > fSkip

\* C9: ChecklistItemUpdate is only invoked for an item with a remote linkage,
\* and so never on the absent (nil) client.
C9_UpdateOnlyLinked ==
    \A k \in 1 .. Len(updates) :
        /\ updates[k].id # <<>>
        /\ updates[k].client

\* The positions of the ChecklistItemUpdate calls for the item at index i.
UpdatesOf(i) == { u \in 1 .. Len(updates) : updates[u].idx = i }

\* C10: when the loop has ended, every executed item (Passed or Failed) with
\* a remote linkage has been reported exactly once, Completed with an empty
\* note or Failed with the captured output, in unattended and in interactive
\* mode; Blank and Skipped items have not been reported.
C10_ReportedOnce ==
    LoopFinished =>
        \A k \in 1 .. Len(results) :
            LET r == results[k]
                item == ItemAt(r.idx)
            IN IF r.kind \in {"Passed", "Failed"}
               THEN item.RunbookID # <<>> =>
                        /\ Cardinality(UpdatesOf(r.idx)) = 1
                        /\ \A u \in UpdatesOf(r.idx) :
                               /\ updates[u].id = item.RunbookID
                               /\ updates[u].step = item.RunbookStep
                               /\ r.kind = "Passed" =>
                                      /\ updates[u].status = StatusCompleted
                                      /\ updates[u].note = <<>>
                               /\ r.kind = "Failed" =>
                                      /\ updates[u].status = StatusFailed
                                      /\ \E o \in Outputs :
                                             updates[u].note = FailNote(o, <<"e">>)
               ELSE UpdatesOf(r.idx) = {}

\* The sources are loaded and the client phase of main.go:61-68 is over
\* without an error of the client's construction.
ClientPhaseDone ==
    /\ pc \notin {"start", "load", "client"}
    /\ exitReason \notin {"noArgs", "loadError", "runbookError"}

\* Some source declares remote steps or some loaded item has a remote linkage.
RemoteNeeded ==
    \E f \in 1 .. Len(declared) :
        \/ Len(checklistFiles[f].RunbookSteps) > 0
        \/ \E i \in 1 .. Len(declared[f]) : declared[f][i].RunbookID # <<>>

\* C11: lazy activation.  With all sources loaded the client exists exactly
\* when a source declares remote steps or a loaded item has a remote linkage,
\* and without the client no remote call is made in the whole run.
C11_LazyActivation ==
    ClientPhaseDone =>
        /\ runbook <=> RemoteNeeded
        /\ ~runbook => fetchLog = <<>> /\ updates = <<>>

\* C12: a failed ChecklistFromRunbook call is the last one: the process has
\* exited with code 1 and nothing was listed, rendered or executed.
C12_FetchErrorAborts ==
    \A k \in 1 .. Len(fetchLog) :
        fetchLog[k].err =>
            /\ k = Len(fetchLog)
            /\ pc = "exited"
            /\ exitCode = 1
            /\ exitReason = "fetchError"
            /\ listing = <<>>
            /\ listTotal = -1
            /\ ~runnerCreated
            /\ results = <<>>
            /\ runnerCalls = <<>>
            /\ updates = <<>>
            /\ banner = "none"

\* C12 witness: with -l, the first of two steps of the first of two files
\* failed to fetch.
C12_Witness ==
    /\ Len(fetchLog) = 1
    /\ fetchLog[1].err
    /\ fetchLog[1].file = 1
    /\ Len(checklistFiles) = 2
    /\ Len(checklistFiles[1].RunbookSteps) = 2
    /\ fList

\* The item lines and the file lines of the listing, in print order.
ItemLines == SelectSeq(listing, LAMBDA l : l.kind = "item")
FileLines == SelectSeq(listing, LAMBDA l : l.kind = "file")

RECURSIVE FileOfItem(_, _)
\* The position of the file that holds the k-th item (k >= 1) of the merged
\* sequence, looking at the files from position f on.
FileOfItem(k, f) ==
    IF k <= Len(checklistFiles[f].Checklist) THEN f
    ELSE FileOfItem(k - Len(checklistFiles[f].Checklist), f + 1)

\* The run ended before the listing could start.
EarlyExit ==
    exitReason \in {"noArgs", "loadError", "runbookError", "envFailed", "fetchError"}

\* C13: with -l nothing is ever executed, rendered or reported and the Runner
\* is not created; unless an earlier phase failed the run ends with code 0
\* after listing every merged item once, under the line of its own file,
\* numbered 1..n across the files.
C13_ListOnly ==
    fList =>
        /\ ~runnerCreated
        /\ results = <<>>
        /\ runnerCalls = <<>>
        /\ updates = <<>>
        /\ banner = "none"
        /\ pc \in {"start", "load", "client", "env", "expand", "list", "exited"}
        /\ (pc = "exited" /\ ~EarlyExit) =>
               /\ exitReason = "listed"
               /\ exitCode = 0
               /\ Len(ItemLines) = Len(ExpectedFrom(1))
               /\ listTotal = Len(ExpectedFrom(1))
               /\ \A k \in 1 .. Len(ItemLines) :
                      /\ ItemLines[k].n = k
                      /\ ItemLines[k].text = ExpectedFrom(1)[k].Title
                      /\ ItemLines[k].file = FileOfItem(k, 1)
               /\ Len(FileLines) = Len(checklistFiles)
               /\ \A f \in 1 .. Len(FileLines) :
                      /\ FileLines[f].file = f
                      /\ FileLines[f].text = checklistFiles[f].Filename
               /\ \A p \in 1 .. Len(listing) :
                      /\ p > 1 => listing[p - 1].file <= listing[p].file
                      /\ listing[p].kind = "item" =>
                             \E q \in 1 .. p - 1 :
                                 /\ listing[q].kind = "file"
                                 /\ listing[q].file = listing[p].file

\* C13 witness: two files with items, one of them with fetched items, were
\* listed.
C13_Witness ==
    /\ exitReason = "listed"
    /\ Len(checklistFiles) = 2
    /\ declared[1] # <<>>
    /\ Len(checklistFiles[2].Checklist) > 0
    /\ \E k \in 1 .. Len(fetchLog) : fetchLog[k].items # <<>>

\* C14: in unattended mode an item without a check that is reached before any
\* failure is reported Skipped "NO CHECKS" without a Runner call, the failure
\* flag stays as it was (set exactly when an item was reported Failed), and
\* the next item is processed, not aborted.
C14_NoChecks ==
    /\ failure <=> FailedAt # {}
    /\ \A k \in 1 .. Len(results) :
           LET r == results[k]
           IN (/\ fAuto
               /\ r.idx >= fSkip
               /\ ~ItemAt(r.idx).HasCheck
               /\ \A j \in 1 .. k - 1 : results[j].kind # "Failed")
              => /\ r.kind = "Skipped"
                 /\ r.reason = "NO CHECKS"
                 /\ r.idx \notin RunnerIdx
                 /\ k < Len(results) =>
                        /\ results[k + 1].idx = r.idx + 1
                        /\ results[k + 1].reason # "ABORTED"
                 /\ (LoopFinished /\ r.idx + 1 < Len(allItems)) => k < Len(results)

\* C14 witness: an unattended run reported "NO CHECKS" and passed the next item.
C14_Witness ==
    /\ fAuto
    /\ \E k \in 1 .. Len(results) - 1 :
           /\ results[k].reason = "NO CHECKS"
           /\ results[k + 1].kind = "Passed"

\* The visited "<" entries whose variable is unset or empty in the process
\* environment.
RequiredUnset ==
    { e \in envVisited :
        /\ checklistFiles[e[1]].Env[e[2]] = RequiredMarker
        /\ (e[2] \notin DOMAIN osEnv \/ osEnv[e[2]] = <<>>) }

\* C15: apart from failed commands, a resolution failure is recorded exactly
\* when a visited "<" entry names a variable that is unset or empty; a
\* variable holding a single space does not fail.
C15_RequiredMarker ==
    envErrs = {} => (failed <=> RequiredUnset # {})

\* C15 witness: resolution ended without failure after visiting a "<" entry
\* whose variable holds a single space.
C15_Witness ==
    /\ EnvPassed
    /\ ~failed
    /\ \E e \in envVisited :
           /\ checklistFiles[e[1]].Env[e[2]] = RequiredMarker
           /\ e[2] \in DOMAIN osEnv
           /\ osEnv[e[2]] = <<" ">>

\* C16: in unattended mode a check that raises an error and a check that
\* returns a non-success result have the same effect: the item is reported
\* Failed, the abort flag is set, the loop goes on to report every remaining
\* item as aborted, and the process exits with code 1 after the last item.
C16_ErrorLikeFail ==
    fAuto =>
        \A k \in FailedAt :
            /\ results[k].reason \in {"error", "fail"}
            /\ failure
            /\ pc \in {"exec", "banner", "exited"}
            /\ \A j \in k + 1 .. Len(results) :
                   /\ results[j].kind = "Skipped"
                   /\ results[j].reason = "ABORTED"
            /\ pc \in {"banner", "exited"} => Len(results) = Len(allItems)
            /\ pc = "exited" => exitCode = 1 /\ exitReason = "itemFailed"

\* C16 witness: an unattended run ended after a check raised an error on an
\* item that was not the last one.
C16_Witness ==
    /\ fAuto
    /\ pc = "exited"
    /\ \E k \in FailedAt : results[k].reason = "error" /\ k < Len(results)

\* C17: a ChecklistItemUpdate call that returns an error changes nothing: the
\* loop moves on to the next item, the failure flag is set exactly when the
\* item itself failed, and with the client present the run ends after the
\* last item with the exit code its item results alone decide.
C17_UpdateFailureIgnored ==
    /\ [][(Len(updates') = Len(updates) + 1 /\ updates'[Len(updates')].err) =>
              /\ pc' \in {"exec", "banner"}
              /\ loopI' = loopI + 1
              /\ failure' = (results'[Len(results')].kind = "Failed")]_vars
    /\ []((runbook /\ pc = "exited" /\ UpdateErrs # {}) =>
              /\ exitReason \in {"allPassed", "itemFailed"}
              /\ Len(results) = Len(allItems)
              /\ exitCode = IF FailedAt = {} THEN 0 ELSE 1)

\* C17 witness: a run ended with code 0 although the update of an item that
\* was not the last one had failed.
C17_Witness ==
    /\ pc = "exited"
    /\ exitCode = 0
    /\ \E u \in UpdateErrs : updates[u].client /\ u < Len(updates)

\* The number of remote steps the loaded files declare.
TotalSteps ==
    SumLen([f \in 1 .. Len(checklistFiles) |-> checklistFiles[f].RunbookSteps], 1)

\* C18: the checklist data changes only while loading (files are added),
\* resolving (Env values) and expanding (Checklist appended to); RunbookSteps
\* never change; once the item sequence is flattened neither it nor any file
\* changes; and when the first item is rendered or executed the resolution of
\* every entry and the fetch of every step are over.
C18_FrozenData ==
    /\ [][/\ checklistFiles' # checklistFiles => pc \in {"load", "env", "expand"}
          /\ Len(checklistFiles') # Len(checklistFiles) => pc = "load"
          /\ \A f \in 1 .. Len(checklistFiles) :
                 /\ f <= Len(checklistFiles')
                 /\ checklistFiles'[f].RunbookSteps = checklistFiles[f].RunbookSteps
                 /\ checklistFiles'[f].Env # checklistFiles[f].Env => pc = "env"
                 /\ checklistFiles'[f].Checklist # checklistFiles[f].Checklist =>
                        pc = "expand"
          /\ banner # "none" =>
                 /\ allItems' = allItems
                 /\ checklistFiles' = checklistFiles]_vars
    /\ []((results # <<>> \/ runnerCalls # <<>>) =>
              /\ banner # "none"
              /\ allItems = Flatten(checklistFiles)
              /\ envVisited = AllEntries
              /\ ~failed
              /\ Len(fetchLog) = TotalSteps
              /\ \A k \in 1 .. Len(fetchLog) : ~fetchLog[k].err)

\* C18 witness: an item was executed after an Env value had been replaced
\* and fetched items had been appended.
C18_Witness ==
    /\ runnerCalls # <<>>
    /\ \E f \in 1 .. Len(checklistFiles) :
           /\ "K1" \in DOMAIN checklistFiles[f].Env
           /\ checklistFiles[f].Env["K1"] \in { <<>>, <<"o">> }
    /\ \E f \in 1 .. Len(checklistFiles) :
           Len(checklistFiles[f].Checklist) > Len(declared[f])

\* The header was printed and the process ended by something other than a
\* call on the absent client that did not return.
RunEnded == banner # "none" /\ pc = "exited" /\ exitReason # "panicNilClient"

\* C19: at most one item is reported Failed; items below skip are Blank, the
\* items from skip up to the failed one are Passed or Skipped "NO CHECKS", the
\* items after the failed one are Skipped "ABORTED"; and a run whose external
\* calls return gives every item of the merged sequence exactly one outcome
\* and ends with the final banner.
C19_OutcomeShape ==
    /\ Cardinality(FailedAt) <= 1
    /\ \A k \in 1 .. Len(results) :
           /\ results[k].idx = k - 1
           /\ k <= Len(allItems)
           /\ results[k].idx < fSkip => results[k].kind = "Blank"
           /\ (results[k].idx >= fSkip /\ \A j \in FailedAt : k < j) =>
                  \/ results[k].kind = "Passed"
                  \/ results[k].kind = "Skipped" /\ results[k].reason = "NO CHECKS"
           /\ (\E j \in FailedAt : k > j) =>
                  results[k].kind = "Skipped" /\ results[k].reason = "ABORTED"
    /\ RunEnded =>
           /\ banner \in {"pass", "fail"}
           /\ Len(results) = Len(allItems)

\* C20: with a skip count that is negative or greater than the number of
\* merged items, no item is rendered Blank or executed, no outcome is reported
\* to the remote service and the process does not end with exit code 0.
C20_SkipOutOfRange ==
    (banner # "none" /\ (fSkip < 0 \/ fSkip > Len(allItems))) =>
        /\ results = <<>>
        /\ runnerCalls = <<>>
        /\ updates = <<>>
        /\ pc = "exited" => exitCode # 0

====
